---- MODULE Spec2Model ----
(***************************************************************************)
(* Model of onepassword/keychain.py: Keychain (unlock, item, key),         *)
(* KeychainItem and its variants (lazy loading, decrypt_with, field        *)
(* extraction).  EncryptionKey lives in onepassword/encryption_key.py and  *)
(* is modelled from its documented contract.                               *)
(***************************************************************************)
EXTENDS Integers, Sequences, FiniteSets, TLC

VARIABLES
  encryption_keys,  \* Keychain._encryption_keys, in insertion order
  items,            \* Keychain._items, in insertion order
  locked,           \* Keychain._locked
  disk,             \* the item files under data/default
  last,             \* the last call, its inputs and its outcome
  last_password     \* the password of the last unlock call, None before it

vars == <<encryption_keys, items, locked, disk, last, last_password>>

----------------------------------------------------------------------------
(* Python values *)

None == "<None>"

\* truth value of a string-or-None: None and "" are falsy
Truthy(x) == x # None /\ x # ""

PyBool(b) == IF b THEN "True" ELSE "False"

----------------------------------------------------------------------------
(* Bounds and input universes *)

MaxKeys == 3
MaxRows == 2
MaxFields == 2
MaxReads == 2

Passwords == {"master", "wrong"}

\* key definitions found in encryptionKeys.js; validation is the password
\* the key material validates against ("corrupt": no password validates)
KeyDefs ==
  { [identifier |-> "K1", level |-> "SL5", validation |-> "master"],
    [identifier |-> "K2", level |-> "SL3", validation |-> "master"],
    [identifier |-> "K2", level |-> "SL5", validation |-> "corrupt"],
    [identifier |-> "K1", level |-> "SL3", validation |-> "corrupt"],
    [identifier |-> "K3", level |-> "SL5", validation |-> "master"],
    [identifier |-> "K3", level |-> "SL3", validation |-> "wrong"] }

Range(f) == { f[i] : i \in DOMAIN f }

SeqsUpTo(S, n) == UNION { [1..k -> S] : k \in 0..n }

KeyLists == SeqsUpTo(KeyDefs, MaxKeys)

----------------------------------------------------------------------------
(* EncryptionKey *)

EncryptionKey(def) ==
  [identifier |-> def.identifier, level |-> def.level,
   validation |-> def.validation, derived |-> FALSE]

\* EncryptionKey.unlock(password): caches the derived key on success,
\* leaves no cached key on failure
KeyUnlock(k, password) ==
  LET ok == (k.validation = password)
  IN  [key |-> [k EXCEPT !.derived = ok], result |-> ok]

----------------------------------------------------------------------------
(* Keychain: key table *)

RECURSIVE IndexOfKey(_, _, _)
IndexOfKey(keys, identifier, i) ==
  IF i > Len(keys) THEN 0
  ELSE IF keys[i].identifier = identifier THEN i
  ELSE IndexOfKey(keys, identifier, i + 1)

\* self._encryption_keys[key.identifier] = key  (dict keeps first position)
SetKey(keys, k) ==
  LET i == IndexOfKey(keys, k.identifier, 1)
  IN  IF i = 0 THEN Append(keys, k) ELSE [keys EXCEPT ![i] = k]

RECURSIVE LoadEncryptionKeys(_, _)
LoadEncryptionKeys(list, acc) ==
  IF list = <<>> THEN acc
  ELSE LoadEncryptionKeys(Tail(list), SetKey(acc, EncryptionKey(Head(list))))

\* map(unlocker, self._encryption_keys.values()), consumed in full by reduce
RECURSIVE MapUnlock(_, _)
MapUnlock(keys, password) ==
  IF keys = <<>> THEN [keys |-> <<>>, results |-> <<>>, calls |-> <<>>]
  ELSE LET h == KeyUnlock(Head(keys), password)
           t == MapUnlock(Tail(keys), password)
       IN  [keys    |-> <<h.key>> \o t.keys,
            results |-> <<h.result>> \o t.results,
            calls   |-> <<Head(keys).identifier>> \o t.calls]

\* functools.reduce(lambda x, y: x and y, ...) after the first element
RECURSIVE ReduceAnd(_, _)
ReduceAnd(x, rest) ==
  IF rest = <<>> THEN x ELSE ReduceAnd(x /\ Head(rest), Tail(rest))

RECURSIVE FirstWithLevel(_, _)
FirstWithLevel(keys, security_level) ==
  IF keys = <<>> THEN None
  ELSE IF Head(keys).level = security_level THEN Head(keys).identifier
  ELSE FirstWithLevel(Tail(keys), security_level)

\* variant of key: the level is tried before the identifier
key_LevelFirst(keys, identifier, security_level) ==
  IF Truthy(security_level) /\ FirstWithLevel(keys, security_level) # None
  THEN FirstWithLevel(keys, security_level)
  ELSE IF Truthy(identifier) /\ IndexOfKey(keys, identifier, 1) # 0
       THEN identifier
       ELSE None

\* Keychain.key: the identifier of the key found, or None
key(keys, identifier, security_level) ==
  IF Truthy(identifier) /\ IndexOfKey(keys, identifier, 1) # 0
  THEN identifier
  ELSE IF Truthy(security_level)
       THEN FirstWithLevel(keys, security_level)
       ELSE None

----------------------------------------------------------------------------
(* Decrypted documents, encrypted blobs and item files *)

\* a decrypted JSON document: parses is FALSE for text json.loads rejects;
\* password/username are None when the top-level entry is absent; urls holds
\* the "url" of each entry of "URLs" (None when the entry has none)
MkDoc(parses, hasFields, fields, password, username, urls) ==
  [parses |-> parses, hasFields |-> hasFields, fields |-> fields,
   password |-> password, username |-> username, urls |-> urls]

\* an entry of "fields": designation/name are None when absent
MkField(designation, name, hasValue, value) ==
  [designation |-> designation, name |-> name,
   hasValue |-> hasValue, value |-> value]

NoData == [none |-> TRUE]
NoBlob == [none |-> TRUE]

\* the "encrypted" entry: a container only the key keyid opens
MkBlob(keyid, doc) == [keyid |-> keyid, doc |-> doc]

\* <identifier>.1password; keyID/securityLevel are None when absent
MkFile(exists, keyID, securityLevel, hasEncrypted, encrypted) ==
  [exists |-> exists, keyID |-> keyID, securityLevel |-> securityLevel,
   hasEncrypted |-> hasEncrypted, encrypted |-> encrypted]

NoFile == MkFile(FALSE, None, None, FALSE, NoBlob)

\* EncryptionKey.decrypt(blob): needs the derived key; a container sealed
\* under another key fails its integrity check
KeyDecrypt(k, blob) ==
  IF ~k.derived THEN [outcome |-> "LockedError", doc |-> NoData]
  ELSE IF blob.keyid # k.identifier
       THEN [outcome |-> "DecryptError", doc |-> NoData]
       ELSE [outcome |-> "ok", doc |-> blob.doc]

----------------------------------------------------------------------------
(* KeychainItem *)

WebFormType == "webforms.WebForm"
PasswordType == "passwords.Password"
GenericAccountType == "wallet.onlineservices.GenericAccount"
SecureNoteType == "securenotes.SecureNote"

KeyIdentifierAttr == "_key_identifier"
SecurityLevelAttr == "_security_level"
EncryptedJsonAttr == "_encrypted_json"

\* KeychainItem.build: the class chosen for a row [identifier, type, name]
build(row) ==
  LET cls == IF row.type = WebFormType THEN "WebFormKeychainItem"
             ELSE IF row.type = PasswordType \/ row.type = GenericAccountType
                  THEN "PasswordKeychainItem"
                  ELSE "KeychainItem"
  IN  [identifier |-> row.identifier, name |-> row.name, type |-> row.type,
       cls |-> cls,
       password |-> None, username |-> None, website |-> None,
       data |-> NoData,
       attrs |-> {},
       key_identifier |-> None, security_level |-> None,
       encrypted_json |-> NoBlob,
       reads |-> 0]

RECURSIVE IndexOfItem(_, _, _)
IndexOfItem(its, name, i) ==
  IF i > Len(its) THEN 0
  ELSE IF its[i].name = name THEN i
  ELSE IndexOfItem(its, name, i + 1)

\* self._items[item.name] = item
SetItem(its, it) ==
  LET i == IndexOfItem(its, it.name, 1)
  IN  IF i = 0 THEN Append(its, it) ELSE [its EXCEPT ![i] = it]

RECURSIVE LoadItemList(_, _)
LoadItemList(rows, acc) ==
  IF rows = <<>> THEN acc
  ELSE LoadItemList(Tail(rows), SetItem(acc, build(Head(rows))))

\* KeychainItem._read_data_file; reads counts the times the file was parsed
ReadDataFile(it, file) ==
  IF ~file.exists THEN [item |-> it, outcome |-> "IOError"]
  ELSE LET a == [it EXCEPT !.reads = @ + 1,
                           !.attrs = @ \cup {KeyIdentifierAttr, SecurityLevelAttr},
                           !.key_identifier = file.keyID,
                           !.security_level = file.securityLevel]
       IN  IF ~file.hasEncrypted
           THEN [item |-> a, outcome |-> "KeyError"]
           ELSE [item |-> [a EXCEPT !.attrs = @ \cup {EncryptedJsonAttr},
                                    !.encrypted_json = file.encrypted],
                 outcome |-> "ok"]

\* KeychainItem._lazily_load(attr)
LazilyLoad(it, attr, file) ==
  IF attr \in it.attrs THEN [item |-> it, outcome |-> "ok"]
  ELSE ReadDataFile(it, file)

\* str.lower() on the strings that occur as designations and names
Lower(s) ==
  CASE s = "USERNAME" -> "username"
    [] s = "Username" -> "username"
    [] s = "PASSWORD" -> "password"
    [] s = "Password" -> "password"
    [] s = "Email"    -> "email"
    [] OTHER          -> s

\* variant of caseequal: the comparison keeps letter case
caseequal_CaseSensitive(s1, s2) == Truthy(s1) /\ Truthy(s2) /\ s1 = s2

caseequal(s1, s2) == Truthy(s1) /\ Truthy(s2) /\ Lower(s1) = Lower(s2)

\* WebFormKeychainItem._find_field over self._data["fields"]
RECURSIVE FindField(_, _)
FindField(fields, k) ==
  IF fields = <<>> THEN [outcome |-> "ok", value |-> None]
  ELSE LET field == Head(fields)
       IN  IF caseequal(field.designation, k) \/ caseequal(field.name, k)
           THEN IF field.hasValue
                THEN [outcome |-> "ok", value |-> field.value]
                ELSE [outcome |-> "KeyError", value |-> None]
           ELSE FindField(Tail(fields), k)

\* variant of FindCredential: the base class reads the flat fields
FindCredential_GenericAsLogin(cls, data, k) ==
  IF cls = "WebFormKeychainItem"
  THEN IF ~data.hasFields THEN [outcome |-> "KeyError", value |-> None]
       ELSE FindField(data.fields, k)
  ELSE [outcome |-> "ok",
        value |-> IF k = "password" THEN data.password ELSE data.username]

\* self._find_password() / self._find_username() by class; the base class
\* raises in _find_password and defines no _find_username
FindCredential(cls, data, k) ==
  IF cls = "WebFormKeychainItem"
  THEN IF ~data.hasFields THEN [outcome |-> "KeyError", value |-> None]
       ELSE FindField(data.fields, k)
  ELSE IF cls = "PasswordKeychainItem"
       THEN [outcome |-> "ok",
             value |-> IF k = "password" THEN data.password ELSE data.username]
       ELSE [outcome |-> IF k = "password" THEN "Exception" ELSE "AttributeError",
             value |-> None]

\* self._find_website() by class
FindWebsite(cls, data) ==
  IF cls = "WebFormKeychainItem" /\ Len(data.urls) > 0
  THEN data.urls[1] ELSE None

KeyAt(keys, identifier) == keys[IndexOfKey(keys, identifier, 1)]

\* lines 127-130 of decrypt_with: store the document, then the three fields
Extract(it, doc) ==
  LET a == [it EXCEPT !.data = doc]
      p == FindCredential(a.cls, doc, "password")
      b == [a EXCEPT !.password = p.value]
      u == FindCredential(b.cls, doc, "username")
      c == [b EXCEPT !.username = u.value]
  IN  IF p.outcome # "ok" THEN [item |-> a, outcome |-> p.outcome]
      ELSE IF u.outcome # "ok" THEN [item |-> b, outcome |-> u.outcome]
      ELSE [item |-> [c EXCEPT !.website = FindWebsite(c.cls, doc)],
            outcome |-> "ok"]

\* KeychainItem.decrypt_with(keychain): the item afterwards, how the call
\* ended, the key keychain.key resolved ("uncalled" when it was not reached)
\* and whether key.decrypt was entered
decrypt_with(it, keys, file) ==
  LET s1 == LazilyLoad(it, KeyIdentifierAttr, file)
      s2 == LazilyLoad(s1.item, SecurityLevelAttr, file)
      k  == key(keys, s2.item.key_identifier, s2.item.security_level)
      s3 == LazilyLoad(s2.item, EncryptedJsonAttr, file)
      d  == KeyDecrypt(KeyAt(keys, k), s3.item.encrypted_json)
      e  == Extract(s3.item, d.doc)
      Res(i, o, r, c) == [item |-> i, outcome |-> o, resolved |-> r, decrypt_called |-> c]
  IN  IF s1.outcome # "ok" THEN Res(s1.item, s1.outcome, "uncalled", FALSE)
      ELSE IF s2.outcome # "ok" THEN Res(s2.item, s2.outcome, "uncalled", FALSE)
      ELSE IF s3.outcome # "ok" THEN Res(s3.item, s3.outcome, k, FALSE)
      ELSE IF k = None THEN Res(s3.item, "AttributeError", k, FALSE)
      ELSE IF d.outcome # "ok" THEN Res(s3.item, d.outcome, k, TRUE)
      ELSE IF ~d.doc.parses THEN Res(s3.item, "ValueError", k, TRUE)
      ELSE Res(e.item, e.outcome, k, TRUE)

----------------------------------------------------------------------------
(* Fuzzy matcher: process.extractOne(name, names, score_cutoff) *)

\* variant of ScoreCutoff: the threshold itself is the cutoff
ScoreCutoff_NoOffset(fuzzy_threshold) == fuzzy_threshold

\* score_cutoff=(fuzzy_threshold-1)
ScoreCutoff(fuzzy_threshold) == fuzzy_threshold - 1

\* index of the best-scoring choice among those reaching the cutoff (the
\* first one on a tie), 0 when there is none
RECURSIVE ExtractOne(_, _, _, _)
ExtractOne(scores, score_cutoff, i, best) ==
  IF i > Len(scores) THEN best
  ELSE IF scores[i] >= score_cutoff /\ (best = 0 \/ scores[i] > scores[best])
       THEN ExtractOne(scores, score_cutoff, i + 1, i)
       ELSE ExtractOne(scores, score_cutoff, i + 1, best)

----------------------------------------------------------------------------
(* Vaults on disk *)

WebDoc ==
  MkDoc(TRUE, TRUE,
        << MkField("USERNAME", None, TRUE, "alice"),
           MkField(None, "password", TRUE, "s3cret") >>,
        None, None, << "https://mail.example" >>)

LoginDoc == MkDoc(TRUE, FALSE, <<>>, "p1", "u1", <<>>)

BadJson == MkDoc(FALSE, FALSE, <<>>, None, None, <<>>)

\* contents.js rows
MkRow(identifier, type, name) ==
  [identifier |-> identifier, type |-> type, name |-> name]

ItemRows ==
  { MkRow("I1", WebFormType, "gmail"),
    MkRow("I2", PasswordType, "bank"),
    MkRow("I3", SecureNoteType, "gmail"),
    MkRow("I4", GenericAccountType, "bank"),
    MkRow("I5", PasswordType, "gmail"),
    MkRow("I6", WebFormType, "bank"),
    MkRow("I7", PasswordType, "gmail") }

ItemIds == { r.identifier : r \in ItemRows }

\* the <identifier>.1password files
DiskFiles ==
  [ id \in ItemIds |->
      CASE id = "I1" -> MkFile(TRUE, "K1", "SL5", TRUE, MkBlob("K1", WebDoc))
        [] id = "I2" -> MkFile(TRUE, None, "SL3", TRUE, MkBlob("K2", LoginDoc))
        [] id = "I3" -> MkFile(TRUE, "K1", None, TRUE, MkBlob("K1", LoginDoc))
        [] id = "I4" -> MkFile(TRUE, "K9", None, TRUE, MkBlob("K9", LoginDoc))
        [] id = "I5" -> MkFile(TRUE, "K9", "SL9", FALSE, NoBlob)
        [] id = "I6" -> NoFile
        [] id = "I7" -> MkFile(TRUE, "K2", "SL5", TRUE, MkBlob("K2", BadJson)) ]

ItemLists == SeqsUpTo(ItemRows, MaxRows)

\* key tables of the vaults whose items vary: one the master password
\* opens in full, one with a key it cannot open
ItemVaultKeyLists ==
  { << [identifier |-> "K1", level |-> "SL5", validation |-> "master"],
       [identifier |-> "K2", level |-> "SL3", validation |-> "master"] >>,
    << [identifier |-> "K1", level |-> "SL3", validation |-> "master"],
       [identifier |-> "K2", level |-> "SL5", validation |-> "corrupt"] >> }

\* entries of a web form's "fields"
FieldEntries ==
  { MkField("username", None, TRUE, "v1"),
    MkField("USERNAME", "login", TRUE, "v2"),
    MkField(None, "Username", TRUE, "v3"),
    MkField("password", None, TRUE, "v4"),
    MkField("email", "PASSWORD", TRUE, "v5"),
    MkField(None, None, TRUE, "v6"),
    MkField("", "password", FALSE, None) }

FieldLists == SeqsUpTo(FieldEntries, MaxFields)

----------------------------------------------------------------------------
(* Inputs of the calls *)

Queries == {"gmail", "gmai"}
Thresholds == {100, 80}
Scores == {79, 99, 100}
KeyArgs == {None, "", "K1", "K2", "K9"}
LevelArgs == {None, "SL3", "SL5"}

----------------------------------------------------------------------------
(* State *)

\* the last call: its inputs, how it ended and what it returned
MkLast(op, outcome, ret, name, level, thr, scores, calls, matched, resolved, dc) ==
  [op |-> op, outcome |-> outcome, ret |-> ret, name |-> name,
   level |-> level, fuzzy_threshold |-> thr, scores |-> scores,
   calls |-> calls, matched |-> matched, resolved |-> resolved,
   decrypt_called |-> dc]

NoCall == MkLast("init", "return", None, None, None, 0, <<>>, <<>>, 0, "uncalled", FALSE)

\* Keychain.__init__ on a vault with the given key list, rows and files;
\* disk keeps the files of the items the index holds
Construct(list, rows, files) ==
  /\ encryption_keys = LoadEncryptionKeys(list, <<>>)
  /\ items = LoadItemList(rows, <<>>)
  /\ locked = TRUE
  /\ disk = [id \in { it.identifier : it \in Range(LoadItemList(rows, <<>>)) } |-> files[id]]
  /\ last = NoCall
  /\ last_password = None

\* vaults with every key table, one login item
InitKeys ==
  \E list \in KeyLists :
    Construct(list, << MkRow("I3", PasswordType, "gmail") >>, DiskFiles)

\* vaults with every item list
InitItems ==
  \E list \in ItemVaultKeyLists, rows \in ItemLists :
    Construct(list, rows, DiskFiles)

\* vaults with one web form whose fields vary
InitFields ==
  \E fields \in FieldLists :
    Construct(<< [identifier |-> "K1", level |-> "SL5", validation |-> "master"] >>,
              << MkRow("I1", WebFormType, "gmail") >>,
              [DiskFiles EXCEPT !["I1"] =
                 MkFile(TRUE, "K1", "SL5", TRUE,
                        MkBlob("K1", MkDoc(TRUE, TRUE, fields, None, None, <<>>)))])


----------------------------------------------------------------------------
(* Operations *)

\* Keychain.unlock(password)
Unlock(password) ==
  LET m == MapUnlock(encryption_keys, password)
      result == ReduceAnd(Head(m.results), Tail(m.results))
  IN  IF m.results = <<>>
      THEN \* reduce() of an empty sequence with no initial value
           /\ last' = MkLast("unlock", "TypeError", None, password, None, 0,
                             <<>>, m.calls, 0, "uncalled", FALSE)
           /\ last_password' = password
           /\ UNCHANGED <<encryption_keys, items, locked, disk>>
      ELSE /\ encryption_keys' = m.keys
           /\ last_password' = password
           /\ locked' = ~result
           /\ last' = MkLast("unlock", "return", PyBool(result), password, None, 0,
                             <<>>, m.calls, 0, "uncalled", FALSE)
           /\ UNCHANGED <<items, disk>>

\* variant of StoreItem: the call resets the credentials of the other items
StoreItem_ClearsOthers(its, match, it) ==
  [j \in DOMAIN its |->
     IF j = match THEN it
     ELSE [its[j] EXCEPT !.password = None, !.username = None, !.website = None]]

\* item = self._items[exact_name]; item.decrypt_with(self): the call changes
\* the object the table holds under that name
StoreItem(its, match, it) == [its EXCEPT ![match] = it]

\* Keychain.item(name, fuzzy_threshold), the matcher scoring the stored
\* names with scores
Item(name, fuzzy_threshold, scores) ==
  LET match == ExtractOne(scores, ScoreCutoff(fuzzy_threshold), 1, 0)
      it == items[match]
      r == decrypt_with(it, encryption_keys, disk[it.identifier])
  IN  IF match = 0
      THEN /\ last' = MkLast("item", "return", None, name, None, fuzzy_threshold,
                             scores, <<>>, 0, "uncalled", FALSE)
           /\ UNCHANGED <<encryption_keys, items, locked, disk, last_password>>
      ELSE /\ r.item.reads <= MaxReads
           /\ items' = StoreItem(items, match, r.item)
           /\ last' = MkLast("item",
                             IF r.outcome = "ok" THEN "return" ELSE r.outcome,
                             IF r.outcome = "ok" THEN it.name ELSE None,
                             name, None, fuzzy_threshold, scores, <<>>, match,
                             r.resolved, r.decrypt_called)
           /\ UNCHANGED <<encryption_keys, locked, disk, last_password>>

\* Keychain.key(identifier, security_level)
Key(identifier, security_level) ==
  /\ last' = MkLast("key", "return",
                    key(encryption_keys, identifier, security_level),
                    identifier, security_level, 0, <<>>, <<>>, 0, "uncalled", FALSE)
  /\ UNCHANGED <<encryption_keys, items, locked, disk, last_password>>

Next ==
  \/ \E password \in Passwords : Unlock(password)
  \/ \E name \in Queries, fuzzy_threshold \in Thresholds,
        scores \in [1..Len(items) -> Scores] :
          Item(name, fuzzy_threshold, scores)
  \/ \E identifier \in KeyArgs, security_level \in LevelArgs :
          Key(identifier, security_level)

SpecKeys == InitKeys /\ [][Next]_vars

SpecItems == InitItems /\ [][Next]_vars

SpecFields == InitFields /\ [][Next]_vars

----------------------------------------------------------------------------
(* Properties *)

Min(S) == CHOOSE x \in S : \A y \in S : x <= y

KeyIndexes == 1..Len(encryption_keys)
ItemIndexes == 1..Len(items)

\* the password opens every key of the table
OpensEveryKey(password) ==
  \A i \in KeyIndexes : encryption_keys[i].validation = password

\* C1: locked is true before the first unlock call; after one it is false
\* exactly when every key of the table unlocked in the most recent call, and
\* unlock returned the negation of locked.
C1_LockedReflectsLastUnlock ==
  /\ last_password = None => locked
  /\ last_password # None => (~locked <=> OpensEveryKey(last_password))
  /\ last.op = "unlock" => last.ret = PyBool(~locked)

\* C2: an unlock call calls unlock on every key of the table, in order and
\* past a failing key, and returns the AND of the per-key results.
C2_UnlockTriesEveryKey ==
  last.op = "unlock" =>
    /\ last.calls = [i \in KeyIndexes |-> encryption_keys[i].identifier]
    /\ \A i \in KeyIndexes :
         encryption_keys[i].derived = (encryption_keys[i].validation = last.name)
    /\ last.outcome = "return"
    /\ last.ret = PyBool(OpensEveryKey(last.name))

\* C3: key(identifier, securityLevel) is the key stored under identifier when
\* one is given and present, whatever securityLevel is; otherwise the first
\* key in insertion order with that level; otherwise None.
C3_KeyResolution ==
  last.op = "key" =>
    LET byId    == { i \in KeyIndexes : encryption_keys[i].identifier = last.name }
        byLevel == { i \in KeyIndexes : encryption_keys[i].level = last.level }
    IN  last.ret = IF last.name # None /\ byId # {} THEN last.name
                   ELSE IF byLevel # {}
                        THEN encryption_keys[Min(byLevel)].identifier
                        ELSE None

\* a key lookup by an identifier stored after a key of the requested level
C3_Witness ==
  /\ last.op = "key"
  /\ last.ret = last.name
  /\ \E i, j \in KeyIndexes :
       /\ i < j
       /\ encryption_keys[j].identifier = last.name
       /\ encryption_keys[i].level = last.level
       /\ encryption_keys[j].level # last.level

\* a key lookup that falls back to the level with two keys of that level
C3_WitnessLevel ==
  /\ last.op = "key"
  /\ last.ret \notin {None, last.name}
  /\ Cardinality({ i \in KeyIndexes : encryption_keys[i].level = last.level }) > 1

\* stored names whose score reaches the minimum fuzzy_threshold - 1
Reaching(scores, fuzzy_threshold) ==
  { i \in DOMAIN scores : scores[i] >= fuzzy_threshold - 1 }

\* the matcher's choice: the best score, the first stored name on a tie
Selected(scores, fuzzy_threshold) ==
  LET R == Reaching(scores, fuzzy_threshold)
  IN  CHOOSE m \in R :
        \A j \in R : scores[j] <= scores[m] /\ (j < m => scores[j] < scores[m])

\* C4 (as stated): item returns None exactly when no stored name reaches
\* fuzzy_threshold - 1, and otherwise returns the item the matcher selected.
C4_ItemReturnsSelected ==
  last.op = "item" =>
    IF Reaching(last.scores, last.fuzzy_threshold) = {}
    THEN last.outcome = "return" /\ last.ret = None
    ELSE /\ last.outcome = "return"
         /\ last.ret = items[Selected(last.scores, last.fuzzy_threshold)].name

\* C4 (amended): item returns None, leaving every item as it was, exactly
\* when no stored name reaches fuzzy_threshold - 1; otherwise it runs
\* decrypt_with on the item the matcher selected, with the Keychain's key
\* table and whatever the locked flag is, and returns that item if
\* decrypt_with completes; if decrypt_with raises, item raises as well.
C4_ItemLookup ==
  [][ last'.op = "item" =>
        IF Reaching(last'.scores, last'.fuzzy_threshold) = {}
        THEN /\ last'.outcome = "return" /\ last'.ret = None
             /\ last'.matched = 0
             /\ items' = items
        ELSE LET m == Selected(last'.scores, last'.fuzzy_threshold)
                 r == decrypt_with(items[m], encryption_keys, disk[items[m].identifier])
             IN  /\ last'.matched = m
                 /\ items'[m] = r.item
                 /\ last'.resolved = r.resolved
                 /\ last'.outcome = "return" <=> r.outcome = "ok"
                 /\ last'.outcome = "return" => last'.ret = items[m].name
                 /\ last'.outcome # "return" =>
                      last'.outcome = r.outcome /\ last'.ret = None
    ]_vars

\* an item found and decrypted while the vault is locked
C4_Witness ==
  /\ locked
  /\ last.op = "item" /\ last.outcome = "return" /\ last.matched # 0
  /\ last.ret = items[last.matched].name
  /\ items[last.matched].password # None
  /\ Cardinality(Reaching(last.scores, last.fuzzy_threshold)) > 1

\* C5: with fuzzy_threshold 100 only an item named exactly as the query is
\* selected, and item returns None when no item has that name.
C5_ThresholdHundredIsExact ==
  (last.op = "item" /\ last.fuzzy_threshold = 100) =>
    /\ last.matched # 0 => items[last.matched].name = last.name
    /\ (\A i \in ItemIndexes : items[i].name # last.name) =>
         (last.matched = 0 /\ last.outcome = "return" /\ last.ret = None)

\* C6: when keychain.key yields no key for the matched item, item ends in the
\* key-not-found error (the failed call on the missing key), not in a None
\* result, and key.decrypt is not entered.
C6_KeyNotFound ==
  (last.op = "item" /\ last.resolved = None) =>
    /\ last.outcome = "AttributeError"
    /\ ~last.decrypt_called

\* C7: decrypt_with on an item of the generic class with a resolved, unlocked
\* key fails in field extraction, and the item's username and password are
\* None afterwards.
C7_GenericItemUnsupported ==
  /\ \A i \in ItemIndexes :
       items[i].cls = "KeychainItem" =>
         items[i].username = None /\ items[i].password = None
  /\ (/\ last.op = "item" /\ last.matched # 0
      /\ items[last.matched].cls = "KeychainItem"
      /\ last.resolved \notin {None, "uncalled"}
      /\ KeyAt(encryption_keys, last.resolved).derived)
     => last.outcome = "Exception"

\* a generic item whose payload was decrypted and parsed
C7_Witness ==
  /\ last.op = "item" /\ last.matched # 0
  /\ items[last.matched].cls = "KeychainItem"
  /\ last.outcome = "Exception"
  /\ last.decrypt_called
  /\ items[last.matched].data # NoData
  /\ items[last.matched].data.password # None

RawAttrs == {KeyIdentifierAttr, SecurityLevelAttr, EncryptedJsonAttr}

\* C8: the three raw fields of an item are loaded together or not at all, and
\* its file is read at most once.
C8_LoadAllOrNothing ==
  \A i \in ItemIndexes :
    /\ items[i].attrs \in {{}, RawAttrs}
    /\ items[i].reads <= 1

\* C9: an item call that ends in an error leaves locked, the key table and
\* every other item as they were, so that decrypt_with on any other item
\* does afterwards what it would have done before.
C9_ItemErrorsAreLocal ==
  [][ (last'.op = "item" /\ last'.outcome # "return") =>
        /\ locked' = locked
        /\ encryption_keys' = encryption_keys
        /\ Len(items') = Len(items)
        /\ \A i \in ItemIndexes :
             i # last'.matched =>
               /\ items'[i] = items[i]
               /\ decrypt_with(items'[i], encryption_keys', disk'[items'[i].identifier])
                    = decrypt_with(items[i], encryption_keys, disk[items[i].identifier])
    ]_vars

\* a failed item call next to another item that holds decrypted credentials
C9_Witness ==
  /\ last.op = "item" /\ last.outcome \notin {"return"} /\ last.matched # 0
  /\ \E i \in ItemIndexes :
       i # last.matched /\ items[i].password # None /\ items[i].username # None
  /\ \E i \in KeyIndexes : encryption_keys[i].derived

\* equality with the lower-case target key, ignoring letter case
EqualsIgnoringCase(s, k) == s # None /\ Lower(s) = k

\* index of the first entry designated or named k, 0 when there is none
FirstMatch(fields, k) ==
  LET M == { i \in 1..Len(fields) :
               \/ EqualsIgnoringCase(fields[i].designation, k)
               \/ EqualsIgnoringCase(fields[i].name, k) }
  IN  IF M = {} THEN 0 ELSE Min(M)

\* the value extraction yields for k: that of the first matching entry
ValueOf(fields, k) ==
  IF FirstMatch(fields, k) # 0 /\ fields[FirstMatch(fields, k)].hasValue
  THEN fields[FirstMatch(fields, k)].value ELSE None

\* extraction for k completes: no entry matches, or the first match has a value
Extractable(fields, k) ==
  FirstMatch(fields, k) = 0 \/ fields[FirstMatch(fields, k)].hasValue

\* C10: a web form's password and username are the values of the first entry
\* of fields whose designation or name equals "password" / "username"
\* ignoring case; entries with neither never match, later entries do not
\* count (username is extracted once password extraction has completed).
C10_WebFormFirstMatch ==
  /\ \A i \in ItemIndexes :
       (/\ items[i].cls = "WebFormKeychainItem"
        /\ items[i].data # NoData
        /\ items[i].data.hasFields) =>
         LET f == items[i].data.fields
         IN  /\ items[i].password = ValueOf(f, "password")
             /\ items[i].username =
                  IF Extractable(f, "password") THEN ValueOf(f, "username") ELSE None
  /\ (/\ last.op = "item" /\ last.matched # 0
      /\ items[last.matched].cls = "WebFormKeychainItem"
      /\ last.decrypt_called
      /\ last.outcome \in {"return", "KeyError"}
      /\ items[last.matched].data # NoData
      /\ items[last.matched].data.hasFields) =>
       LET f == items[last.matched].data.fields
       IN  last.outcome = "return" <=>
             (Extractable(f, "password") /\ Extractable(f, "username"))

\* a username taken from a first match written in another case, with a
\* later entry that matches too and holds another value
C10_Witness ==
  /\ last.op = "item" /\ last.outcome = "return" /\ last.matched # 0
  /\ LET it == items[last.matched]
         f == it.data.fields
         u == FirstMatch(f, "username")
     IN  /\ it.cls = "WebFormKeychainItem"
         /\ u # 0
         /\ it.username = f[u].value
         /\ "username" \notin {f[u].designation, f[u].name}
         /\ \E j \in 1..Len(f) :
              j > u /\ f[j].designation = "username" /\ f[j].value # f[u].value

====
